---- MODULE Spec2Model ----
(***************************************************************************)
(* Model of the data-center power-studies cost estimator (src/app.py) and  *)
(* of the bus-count estimator described in spec.md section 4.1.            *)
(*                                                                         *)
(* Numbers.  The script computes with Python floats over inputs that lie   *)
(* on decimal grids (0.1 MW, 0.1 factors, whole percents, whole rupees).   *)
(* The model computes with exact rationals in lowest terms, [n |-> , d |->]*)
(* with d > 0, so two values are equal exactly when their records are      *)
(* equal.  Binary rounding of the floats is not represented.               *)
(***************************************************************************)
EXTENDS Integers, Sequences, FiniteSets, TLC

(***************************************************************************)
(* Exact rational arithmetic                                               *)
(***************************************************************************)
Abs(a) == IF a < 0 THEN -a ELSE a

RECURSIVE GCD(_, _)
GCD(a, b) == IF b = 0 THEN a ELSE GCD(b, a % b)

\* the rational n/d in lowest terms (d > 0)
R(n, d) == LET g == GCD(Abs(n), d) IN [n |-> n \div g, d |-> d \div g]

Zero == R(0, 1)
One == R(1, 1)

\* x + y
RAdd(x, y) ==
    LET g == GCD(x.d, y.d)
        l == x.d * (y.d \div g)
    IN  R(x.n * (l \div x.d) + y.n * (l \div y.d), l)

\* x * y
RMul(x, y) ==
    LET g1 == GCD(Abs(x.n), y.d)
        g2 == GCD(Abs(y.n), x.d)
    IN  R((x.n \div g1) * (y.n \div g2), (x.d \div g2) * (y.d \div g1))

\* x / y for y > 0
RDiv(x, y) == RMul(x, [n |-> y.d, d |-> y.n])

\* x <= y
RLeq(x, y) == RAdd(x, [n |-> -y.n, d |-> y.d]).n <= 0

\* math.ceil(x)
Ceil(x) == (x.n + x.d - 1) \div x.d

(***************************************************************************)
(* Cost estimator: widget values (src/app.py 95-167)                       *)
(***************************************************************************)
VARIABLES
    it_capacity, mechanical_load, house_load,   \* MW
    tier_level, delivery_type, report_format,
    studies_selected,                           \* study key -> BOOLEAN
    client_meetings, custom_margin,
    bus_calibration,
    calibration_factor,                         \* study key -> factor
    sliders,                                    \* allocation sliders, in percent
    senior_rate, mid_rate, junior_rate,
    meeting_cost, urgency_multiplier

(***************************************************************************)
(* Cost estimator: what one run of the script computes                     *)
(***************************************************************************)
VARIABLES
    pc,                     \* position of the run in the script
    senior_allocation, mid_allocation, junior_allocation, total_allocation,
    total_load, estimated_buses,
    idx,                    \* position of the study loop in STUDIES_DATA
    total_study_hours, total_study_cost,
    studies,                \* results['studies']
    costs,                  \* results['costs']
    study_percentages,      \* the shares shown next to the cost chart
    reruns,                 \* reruns caused by the delivery-type selectbox
    prev                    \* results shown by the run before this one

widgets == <<it_capacity, mechanical_load, house_load, tier_level, delivery_type,
             report_format, studies_selected, client_meetings, custom_margin,
             bus_calibration, calibration_factor, sliders, senior_rate, mid_rate,
             junior_rate, meeting_cost, urgency_multiplier>>

allocations == <<senior_allocation, mid_allocation, junior_allocation, total_allocation>>

calc == <<total_load, estimated_buses, idx, total_study_hours, total_study_cost,
          studies, costs, study_percentages>>

(***************************************************************************)
(* Bus-count estimator (spec.md 3 and 4.1)                                 *)
(***************************************************************************)
VARIABLES
    bus_pc,             \* "idle", "config" (a configuration awaits) or "estimated"
    bus_config,         \* BusCountConfig
    bus_result,         \* BusCountResult of the last call
    totals_by_tier      \* redundancy tier -> totalBuses, for the configuration held

bus == <<bus_pc, bus_config, bus_result, totals_by_tier>>

vars == <<widgets, pc, allocations, calc, reruns, prev, bus>>

\* bounds of the explored inputs
MaxMeetings == 1
MaxReruns == 1
MaxGenerators == 1
MaxIncomers == 1

Tiers == {"Tier I", "Tier II", "Tier III", "Tier IV"}
DeliveryTypes == {"Standard", "Urgent"}
ReportFormats == {"Basic PDF", "Detailed Report with Appendices", "Client-Branded Report"}

TIER_FACTORS ==
    [t \in Tiers |->
        CASE t = "Tier I" -> R(10, 10)
          [] t = "Tier II" -> R(12, 10)
          [] t = "Tier III" -> R(15, 10)
          [] t = "Tier IV" -> R(20, 10)]

BUS_PER_MW ==
    [t \in Tiers |->
        CASE t = "Tier I" -> R(15, 10)
          [] t = "Tier II" -> R(17, 10)
          [] t = "Tier III" -> R(20, 10)
          [] t = "Tier IV" -> R(23, 10)]

\* the keys of STUDIES_DATA in insertion order, which is the loop's order
StudyOrder == <<"load_flow", "short_circuit", "pdc", "arc_flash">>
StudyKeys == {StudyOrder[i] : i \in 1..Len(StudyOrder)}

base_hours_per_bus ==
    [k \in StudyKeys |->
        CASE k = "load_flow" -> R(8, 10)
          [] k = "short_circuit" -> R(10, 10)
          [] k = "pdc" -> R(15, 10)
          [] k = "arc_flash" -> R(12, 10)]

REPORT_MULTIPLIERS ==
    [f \in ReportFormats |->
        CASE f = "Basic PDF" -> R(10, 10)
          [] f = "Detailed Report with Appendices" -> R(18, 10)
          [] f = "Client-Branded Report" -> R(22, 10)]

ReportBase == 15000

\* a function with no entries: results['studies'] = {} and results['costs'] = {}
Empty == [k \in {} |-> Zero]

\* values of the widgets the model explores (all inside the widgets' ranges)
LoadCases == {<<R(1, 10), R(1, 10), R(1, 10)>>, <<R(50, 10), R(20, 10), R(5, 10)>>}
BusCalibrations == {R(5, 10), R(10, 10)}
FactorCases ==
    { [k \in StudyKeys |-> One],
      [k \in StudyKeys |->
          CASE k = "load_flow" -> R(5, 10)
            [] k = "short_circuit" -> R(13, 10)
            [] k = "pdc" -> R(10, 10)
            [] k = "arc_flash" -> R(20, 10)] }
SliderCases ==
    { [senior |-> 20, mid |-> 30, junior |-> 50],
      [senior |-> 10, mid |-> 20, junior |-> 50] }
RateCases == {<<1200, 650, 350>>, <<800, 400, 200>>}
MeetingCosts == {8000}
UrgencyMultipliers == {R(13, 10)}
Margins == {0, 15}

\* the bus-count page is not in use
BusIdle ==
    /\ bus_pc = "idle"
    /\ bus_config = Empty
    /\ bus_result = Empty
    /\ totals_by_tier = Empty

\* the script starts: the allocation sliders are read and divided by 100 (147-149)
ReadSliders ==
    /\ senior_allocation' = R(sliders'.senior, 100)
    /\ mid_allocation' = R(sliders'.mid, 100)
    /\ junior_allocation' = R(sliders'.junior, 100)
    /\ total_allocation' = Zero

ResetCalc ==
    /\ total_load' = Zero
    /\ estimated_buses' = 0
    /\ idx' = 1
    /\ total_study_hours' = Zero
    /\ total_study_cost' = Zero
    /\ studies' = Empty
    /\ costs' = Empty
    /\ study_percentages' = Empty

Init ==
    /\ \E l \in LoadCases :
          /\ it_capacity = l[1]
          /\ mechanical_load = l[2]
          /\ house_load = l[3]
    /\ tier_level \in Tiers
    /\ delivery_type = "Standard"
    /\ report_format \in ReportFormats
    /\ studies_selected \in [StudyKeys -> BOOLEAN]
    /\ client_meetings \in 0..MaxMeetings
    /\ custom_margin \in Margins
    /\ bus_calibration \in BusCalibrations
    /\ calibration_factor \in FactorCases
    /\ sliders \in SliderCases
    /\ \E r \in RateCases :
          /\ senior_rate = r[1]
          /\ mid_rate = r[2]
          /\ junior_rate = r[3]
    /\ meeting_cost \in MeetingCosts
    /\ urgency_multiplier \in UrgencyMultipliers
    /\ pc = "normalize"
    /\ senior_allocation = R(sliders.senior, 100)
    /\ mid_allocation = R(sliders.mid, 100)
    /\ junior_allocation = R(sliders.junior, 100)
    /\ total_allocation = Zero
    /\ total_load = Zero
    /\ estimated_buses = 0
    /\ idx = 1
    /\ total_study_hours = Zero
    /\ total_study_cost = Zero
    /\ studies = Empty
    /\ costs = Empty
    /\ study_percentages = Empty
    /\ reruns = 0
    /\ prev = [valid |-> FALSE, delivery |-> "Standard", studies |-> Empty, costs |-> Empty]
    /\ BusIdle

(***************************************************************************)
(* The script, top to bottom                                               *)
(***************************************************************************)

\* an allocation left as the slider gave it
NotNormalized(a, total) == a

\* 152-156: an allocation after the normalisation step, given the sum
NormalizedAllocation(a, total) == IF total # One THEN RDiv(a, total) ELSE a

\* 151-157: normalize allocations to 100%
Normalize ==
    /\ pc = "normalize"
    /\ total_allocation' = RAdd(RAdd(senior_allocation, mid_allocation), junior_allocation)
    /\ senior_allocation' = NormalizedAllocation(senior_allocation, total_allocation')
    /\ mid_allocation' = NormalizedAllocation(mid_allocation, total_allocation')
    /\ junior_allocation' = NormalizedAllocation(junior_allocation, total_allocation')
    /\ pc' = "calc"
    /\ UNCHANGED <<widgets, calc, reruns, prev, bus>>

\* 219: total_load
TotalLoad == RAdd(RAdd(it_capacity, mechanical_load), house_load)

\* estimated_buses with the product truncated (int) instead of rounded up
EstimatedBusesTruncated(load) ==
    LET x == RMul(RMul(load, BUS_PER_MW[tier_level]), bus_calibration) IN x.n \div x.d

\* 222: estimated_buses
EstimatedBuses(load) == Ceil(RMul(RMul(load, BUS_PER_MW[tier_level]), bus_calibration))

\* 217-260: calculate_project_cost is entered, up to the study loop
Start ==
    /\ pc = "calc"
    /\ total_load' = TotalLoad
    /\ estimated_buses' = EstimatedBuses(total_load')
    /\ studies' = Empty
    /\ costs' = Empty
    /\ study_percentages' = Empty
    /\ total_study_hours' = Zero
    /\ total_study_cost' = Zero
    /\ idx' = 1
    /\ pc' = "loop"
    /\ UNCHANGED <<widgets, allocations, reruns, prev, bus>>

\* the loop without its test of the checkbox
SelectedAlways(k) == TRUE

\* 263: the loop's test of the checkbox
Selected(k) == studies_selected[k]

\* study_hours without the tier complexity factor
StudyHoursNoTier(k) ==
    RMul(RMul(R(estimated_buses, 1), base_hours_per_bus[k]), calibration_factor[k])

\* 265-268: study_hours
StudyHours(k) ==
    RMul(RMul(RMul(R(estimated_buses, 1), base_hours_per_bus[k]), calibration_factor[k]),
         TIER_FACTORS[tier_level])

\* rate_multiplier applied whatever the delivery type
RateMultiplierAlways == urgency_multiplier

\* 278: rate_multiplier
RateMultiplier == IF delivery_type = "Urgent" THEN urgency_multiplier ELSE One

\* 273-300: the entry stored for study k (its name, emoji and complexity label,
\* which no computation reads, are left out)
StudyEntry(k) ==
    LET study_hours == StudyHours(k)
        senior_hours == RMul(study_hours, senior_allocation)
        mid_hours == RMul(study_hours, mid_allocation)
        junior_hours == RMul(study_hours, junior_allocation)
        rate_multiplier == RateMultiplier
        senior_cost == RMul(RMul(senior_hours, R(senior_rate, 1)), rate_multiplier)
        mid_cost == RMul(RMul(mid_hours, R(mid_rate, 1)), rate_multiplier)
        junior_cost == RMul(RMul(junior_hours, R(junior_rate, 1)), rate_multiplier)
    IN  [hours |-> study_hours,
         senior_hours |-> senior_hours,
         mid_hours |-> mid_hours,
         junior_hours |-> junior_hours,
         senior_cost |-> senior_cost,
         mid_cost |-> mid_cost,
         junior_cost |-> junior_cost,
         total_cost |-> RAdd(RAdd(senior_cost, mid_cost), junior_cost)]

\* total -= x
AccumulateMinus(total, x) == RAdd(total, [n |-> -x.n, d |-> x.d])

\* total = x
AccumulateOverwrite(total, x) == x

\* 270, 285: total += x
Accumulate(total, x) == RAdd(total, x)

\* 288: results['studies'][k] = e
Store(d, k, e) == [j \in DOMAIN d \cup {k} |-> IF j = k THEN e ELSE d[j]]

\* 262-300: one iteration of the loop over STUDIES_DATA
LoopStep ==
    /\ pc = "loop"
    /\ idx <= Len(StudyOrder)
    /\ LET k == StudyOrder[idx]
           e == StudyEntry(k)
       IN  IF Selected(k)
           THEN /\ total_study_hours' = Accumulate(total_study_hours, e.hours)
                /\ total_study_cost' = Accumulate(total_study_cost, e.total_cost)
                /\ studies' = Store(studies, k, e)
           ELSE UNCHANGED <<total_study_hours, total_study_cost, studies>>
    /\ idx' = idx + 1
    /\ UNCHANGED <<widgets, pc, allocations, total_load, estimated_buses, costs,
                   study_percentages, reruns, prev, bus>>

\* results['costs'] with the margin applied to the study cost alone
ProjectCostsMarginOnStudies ==
    LET total_meeting_cost == R(client_meetings * meeting_cost, 1)
        report_cost == RMul(R(ReportBase, 1), REPORT_MULTIPLIERS[report_format])
        subtotal == RAdd(RAdd(total_study_cost, total_meeting_cost), report_cost)
        margin == RMul(total_study_cost, R(custom_margin, 100))
    IN  [total_study_cost |-> total_study_cost,
         meeting_cost |-> total_meeting_cost,
         report_cost |-> report_cost,
         subtotal |-> subtotal,
         margin_amount |-> margin,
         total_cost |-> RAdd(subtotal, margin),
         total_hours |-> total_study_hours]

\* 303-318: results['costs']
ProjectCosts ==
    LET total_meeting_cost == R(client_meetings * meeting_cost, 1)
        report_cost == RMul(R(ReportBase, 1), REPORT_MULTIPLIERS[report_format])
        subtotal == RAdd(RAdd(total_study_cost, total_meeting_cost), report_cost)
        total_cost == RMul(subtotal, RAdd(One, R(custom_margin, 100)))
    IN  [total_study_cost |-> total_study_cost,
         meeting_cost |-> total_meeting_cost,
         report_cost |-> report_cost,
         subtotal |-> subtotal,
         margin_amount |-> RMul(subtotal, R(custom_margin, 100)),
         total_cost |-> total_cost,
         total_hours |-> total_study_hours]

\* 302-320: the loop has ended; additional costs, total, return
Finish ==
    /\ pc = "loop"
    /\ idx > Len(StudyOrder)
    /\ costs' = ProjectCosts
    /\ pc' = "done"
    /\ UNCHANGED <<widgets, allocations, total_load, estimated_buses, idx,
                   total_study_hours, total_study_cost, studies, study_percentages,
                   reruns, prev, bus>>

RECURSIVE StudyCosts(_)
\* 379: study_costs, the total_cost of the first n entries of results['studies']
StudyCosts(n) ==
    IF n = 0 THEN <<>>
    ELSE IF StudyOrder[n] \in DOMAIN studies
         THEN Append(StudyCosts(n - 1), studies[StudyOrder[n]].total_cost)
         ELSE StudyCosts(n - 1)

RECURSIVE Sum(_)
\* 380: sum(study_costs)
Sum(q) == IF q = <<>> THEN Zero ELSE RAdd(Sum(SubSeq(q, 1, Len(q) - 1)), q[Len(q)])

\* 374-380: the cost distribution; cost / sum(study_costs) * 100 raises
\* ZeroDivisionError when the sum is zero
ShowDistribution ==
    /\ pc = "done"
    /\ IF studies # Empty
       THEN LET total == Sum(StudyCosts(Len(StudyOrder)))
            IN  IF total = Zero
                THEN /\ pc' = "ZeroDivisionError"
                     /\ UNCHANGED study_percentages
                ELSE /\ study_percentages' =
                           [k \in DOMAIN studies |->
                               RMul(RDiv(studies[k].total_cost, total), R(100, 1))]
                     /\ pc' = "displayed"
       ELSE /\ pc' = "displayed"
            /\ UNCHANGED study_percentages
    /\ UNCHANGED <<widgets, allocations, total_load, estimated_buses, idx,
                   total_study_hours, total_study_cost, studies, costs, reruns, prev, bus>>

\* 111: the user picks the other delivery type; the script runs again from the
\* top with every other widget as it was
ChangeDelivery ==
    /\ pc \in {"done", "displayed"}
    /\ reruns < MaxReruns
    /\ delivery_type' = IF delivery_type = "Standard" THEN "Urgent" ELSE "Standard"
    /\ prev' = [valid |-> TRUE, delivery |-> delivery_type, studies |-> studies,
                costs |-> costs]
    /\ reruns' = reruns + 1
    /\ pc' = "normalize"
    /\ UNCHANGED <<it_capacity, mechanical_load, house_load, tier_level, report_format,
                   studies_selected, client_meetings, custom_margin, bus_calibration,
                   calibration_factor, sliders, senior_rate, mid_rate, junior_rate,
                   meeting_cost, urgency_multiplier, bus>>
    /\ ReadSliders
    /\ ResetCalc

Next == Normalize \/ Start \/ LoopStep \/ Finish \/ ShowDistribution \/ ChangeDelivery

Spec == Init /\ [][Next]_vars

(***************************************************************************)
(* Properties of the cost estimator                                        *)
(***************************************************************************)

\* x as a whole number of tenths, for an x that lies on the 0.1 grid
Tenths(x) == (x.n * 10) \div x.d

NonNegative(x) == x.n >= 0 /\ x.d > 0

NoneSelected == \A k \in StudyKeys : ~studies_selected[k]

\* the report costs the claims state, 15000 times 1.0, 1.8 and 2.2
StatedReportCost(f) ==
    CASE f = "Basic PDF" -> 15000
      [] f = "Detailed Report with Appendices" -> 27000
      [] f = "Client-Branded Report" -> 33000

\* the tables the claims state, in tenths
StatedBusPerMw(t) ==
    CASE t = "Tier I" -> 15 [] t = "Tier II" -> 17 [] t = "Tier III" -> 20 [] t = "Tier IV" -> 23

StatedTierComplexity(t) ==
    CASE t = "Tier I" -> 10 [] t = "Tier II" -> 12 [] t = "Tier III" -> 15 [] t = "Tier IV" -> 20

StatedBaseHours(k) ==
    CASE k = "load_flow" -> 8 [] k = "short_circuit" -> 10 [] k = "pdc" -> 15
      [] k = "arc_flash" -> 12

\* C1: in every returned result, total_cost = (total_study_cost + meeting_cost +
\* report_cost) * (1 + margin/100), with meeting_cost = client_meetings *
\* cost-per-meeting and report_cost = 15000 * REPORT_MULTIPLIERS[report_format],
\* whatever subset of studies is selected.
C1_CostAdditivity ==
    pc = "done" =>
        /\ costs.meeting_cost = R(client_meetings * meeting_cost, 1)
        /\ costs.report_cost = R(StatedReportCost(report_format), 1)
        /\ costs.total_cost =
              RMul(RAdd(RAdd(costs.total_study_cost, costs.meeting_cost), costs.report_cost),
                   R(100 + custom_margin, 100))

C1_Witness ==
    /\ pc = "done"
    /\ custom_margin > 0
    /\ client_meetings > 0
    /\ costs.total_study_cost.n > 0
    /\ \E k \in StudyKeys : ~studies_selected[k]

\* C2 as stated: with no study selected the result has an empty breakdown and
\* total cost, subtotal and margin amount all zero.
C2_ZeroAggregateCost ==
    (pc = "done" /\ NoneSelected) =>
        /\ studies = Empty
        /\ costs.total_cost = Zero
        /\ costs.subtotal = Zero
        /\ costs.margin_amount = Zero

\* C2 amended: with no study selected the run returns a result whose breakdown is
\* empty and whose study cost and total hours are zero; its subtotal is
\* meeting_cost + report_cost, which is at least 15000, and margin and total
\* follow from that subtotal.
C2_EmptySelection ==
    (pc = "done" /\ NoneSelected) =>
        /\ studies = Empty
        /\ costs.total_study_cost = Zero
        /\ costs.total_hours = Zero
        /\ costs.subtotal = R(client_meetings * meeting_cost + StatedReportCost(report_format), 1)
        /\ costs.subtotal.n >= 15000 * costs.subtotal.d
        /\ costs.margin_amount = RMul(costs.subtotal, R(custom_margin, 100))
        /\ costs.total_cost = RAdd(costs.subtotal, costs.margin_amount)

C2_Witness == pc = "done" /\ NoneSelected /\ client_meetings > 0 /\ custom_margin > 0

C4_StudyHours ==
    /\ \A k \in DOMAIN studies :
          studies[k].hours.n * 1000 =
              studies[k].hours.d * estimated_buses * StatedBaseHours(k)
                  * Tenths(calibration_factor[k]) * StatedTierComplexity(tier_level)
    /\ (/\ pc = "done"
        /\ estimated_buses = 15
        /\ tier_level = "Tier III"
        /\ \A k \in StudyKeys : studies_selected[k] <=> k = "load_flow"
        /\ calibration_factor["load_flow"] = One)
       => (DOMAIN studies = {"load_flow"} /\ studies["load_flow"].hours = R(18, 1))

C4_Witness ==
    /\ pc = "done"
    /\ estimated_buses = 15
    /\ tier_level = "Tier III"
    /\ calibration_factor["load_flow"] = One
    /\ DOMAIN studies = {"load_flow"}
    /\ studies["load_flow"].hours = R(18, 1)

\* the previous and the current results, ordered as (Standard, Urgent)
StandardRun ==
    IF delivery_type = "Standard" THEN [studies |-> studies, costs |-> costs]
    ELSE [studies |-> prev.studies, costs |-> prev.costs]

UrgentRun ==
    IF delivery_type = "Urgent" THEN [studies |-> studies, costs |-> costs]
    ELSE [studies |-> prev.studies, costs |-> prev.costs]

\* C6: for two configurations that differ only in delivery type, every per-grade
\* study cost under Urgent is urgency_multiplier times the cost under Standard,
\* while study hours, per-grade hours, meeting cost and report cost are the same.
C6_UrgencyOnlyWhenUrgent ==
    (pc = "done" /\ prev.valid /\ prev.delivery # delivery_type) =>
        LET s == StandardRun
            u == UrgentRun
        IN  /\ DOMAIN u.studies = DOMAIN s.studies
            /\ \A k \in DOMAIN s.studies :
                  /\ u.studies[k].senior_cost = RMul(urgency_multiplier, s.studies[k].senior_cost)
                  /\ u.studies[k].mid_cost = RMul(urgency_multiplier, s.studies[k].mid_cost)
                  /\ u.studies[k].junior_cost = RMul(urgency_multiplier, s.studies[k].junior_cost)
                  /\ s.studies[k].senior_cost =
                        RMul(s.studies[k].senior_hours, R(senior_rate, 1))
                  /\ s.studies[k].mid_cost = RMul(s.studies[k].mid_hours, R(mid_rate, 1))
                  /\ s.studies[k].junior_cost =
                        RMul(s.studies[k].junior_hours, R(junior_rate, 1))
                  /\ u.studies[k].hours = s.studies[k].hours
                  /\ u.studies[k].senior_hours = s.studies[k].senior_hours
                  /\ u.studies[k].mid_hours = s.studies[k].mid_hours
                  /\ u.studies[k].junior_hours = s.studies[k].junior_hours
            /\ u.costs.meeting_cost = s.costs.meeting_cost
            /\ u.costs.report_cost = s.costs.report_cost

C6_Witness ==
    /\ pc = "done"
    /\ prev.valid
    /\ delivery_type = "Urgent"
    /\ prev.delivery = "Standard"
    /\ urgency_multiplier # One
    /\ DOMAIN studies = StudyKeys
    /\ studies["pdc"].senior_cost # prev.studies["pdc"].senior_cost

AllNonNegative(e) == \A f \in DOMAIN e : NonNegative(e[f])

\* C7: every hour value and every monetary value of the result is non-negative,
\* and so are the running totals after each study the loop has processed.
C7_NonNegative ==
    /\ NonNegative(total_study_hours)
    /\ NonNegative(total_study_cost)
    /\ NonNegative(total_load)
    /\ estimated_buses >= 0
    /\ \A k \in DOMAIN studies : AllNonNegative(studies[k])
    /\ AllNonNegative(costs)

C7_Witness ==
    /\ pc = "loop"
    /\ idx = 3
    /\ DOMAIN studies = {"load_flow", "short_circuit"}
    /\ total_study_cost.n > 0
    /\ total_study_hours.n > 0

\* the studies the loop has been through, in the loop's order
Processed == SubSeq(StudyOrder, 1, idx - 1)

RECURSIVE SumOver(_, _, _)
\* the sum, in the loop's order, of field f of the entries of d for the keys in q
SumOver(q, d, f) ==
    IF q = <<>> THEN Zero
    ELSE LET k == q[Len(q)]
             rest == SumOver(SubSeq(q, 1, Len(q) - 1), d, f)
         IN  IF k \in DOMAIN d THEN RAdd(rest, d[k][f]) ELSE rest

\* C10: after the loop has processed any prefix of the study types,
\* results['studies'] has an entry exactly for each selected study processed so
\* far, total_study_cost is the sum of their total_cost and total_study_hours the
\* sum of their hours; the final total_study_cost and total_hours are the sums
\* over exactly the selected studies.
C10_LoopTotals ==
    pc \in {"loop", "done"} =>
        /\ DOMAIN studies =
              {StudyOrder[i] : i \in {j \in 1..(idx - 1) : studies_selected[StudyOrder[j]]}}
        /\ total_study_cost = SumOver(Processed, studies, "total_cost")
        /\ total_study_hours = SumOver(Processed, studies, "hours")
        /\ pc = "done" =>
              /\ idx = Len(StudyOrder) + 1
              /\ DOMAIN studies = {k \in StudyKeys : studies_selected[k]}
              /\ costs.total_study_cost = SumOver(StudyOrder, studies, "total_cost")
              /\ costs.total_hours = SumOver(StudyOrder, studies, "hours")

C10_Witness ==
    /\ pc = "loop"
    /\ idx = 4
    /\ studies_selected["load_flow"]
    /\ ~studies_selected["short_circuit"]
    /\ studies_selected["pdc"]
    /\ DOMAIN studies = {"load_flow", "pdc"}
    /\ total_study_cost = RAdd(studies["load_flow"].total_cost, studies["pdc"].total_cost)

(***************************************************************************)
(* The normalisation step over everything the allocation sliders allow     *)
(***************************************************************************)

\* 147-149: the ranges of the three sliders, in percent
SeniorRange == 10..40
MidRange == 20..50
JuniorRange == 30..70

\* the widgets at their default values, the allocation sliders anywhere
InitAlloc ==
    /\ it_capacity = R(50, 10)
    /\ mechanical_load = R(20, 10)
    /\ house_load = R(5, 10)
    /\ tier_level = "Tier III"
    /\ delivery_type = "Standard"
    /\ report_format = "Detailed Report with Appendices"
    /\ studies_selected = [k \in StudyKeys |-> TRUE]
    /\ client_meetings = 2
    /\ custom_margin = 15
    /\ bus_calibration = One
    /\ calibration_factor = [k \in StudyKeys |-> One]
    /\ sliders \in [senior : SeniorRange, mid : MidRange, junior : JuniorRange]
    /\ senior_rate = 1200
    /\ mid_rate = 650
    /\ junior_rate = 350
    /\ meeting_cost = 8000
    /\ urgency_multiplier = R(13, 10)
    /\ pc = "normalize"
    /\ senior_allocation = R(sliders.senior, 100)
    /\ mid_allocation = R(sliders.mid, 100)
    /\ junior_allocation = R(sliders.junior, 100)
    /\ total_allocation = Zero
    /\ total_load = Zero
    /\ estimated_buses = 0
    /\ idx = 1
    /\ total_study_hours = Zero
    /\ total_study_cost = Zero
    /\ studies = Empty
    /\ costs = Empty
    /\ study_percentages = Empty
    /\ reruns = 0
    /\ prev = [valid |-> FALSE, delivery |-> "Standard", studies |-> Empty, costs |-> Empty]
    /\ BusIdle

NextAlloc == Normalize

SpecAlloc == InitAlloc /\ [][NextAlloc]_vars

\* C5: for every combination the three sliders allow, the sum divided by is not
\* zero and the three allocations used by the calculation sum to 1.0 after the
\* normalisation step, whether or not the slider values summed to 100%.
C5_AllocationsSumToOne ==
    pc = "calc" =>
        /\ total_allocation.n > 0
        /\ total_allocation.n * 100 =
              total_allocation.d * (sliders.senior + sliders.mid + sliders.junior)
        /\ senior_allocation.n * mid_allocation.d * junior_allocation.d
              + mid_allocation.n * senior_allocation.d * junior_allocation.d
              + junior_allocation.n * senior_allocation.d * mid_allocation.d
           = senior_allocation.d * mid_allocation.d * junior_allocation.d

C5_Witness ==
    /\ pc = "calc"
    /\ sliders = [senior |-> 40, mid |-> 50, junior |-> 67]
    /\ total_allocation = R(157, 100)
    /\ senior_allocation = R(40, 157)
    /\ mid_allocation = R(50, 157)
    /\ junior_allocation = R(67, 157)

(***************************************************************************)
(* Bus-count estimator, spec.md 4.1                                        *)
(***************************************************************************)
RSub(x, y) == RAdd(x, [n |-> -y.n, d |-> y.d])

RMax(x, y) == IF RLeq(x, y) THEN y ELSE x

DcTypes == {"Enterprise/Colo", "Hyperscale", "AI/HPC"}
RedundancyTiers == {"N", "N+1", "2N"}
CoolingTypes == {"Air", "Liquid"}
Climates == {"Temperate", "Cold", "Hot/Humid"}

\* step 1
pueAdjustment(dcType) ==
    CASE dcType = "AI/HPC" -> R(-2, 10)
      [] dcType = "Hyperscale" -> R(-1, 10)
      [] OTHER -> Zero

adjustedPUE(c) == RMax(R(11, 10), RAdd(c.pue, pueAdjustment(c.dcType)))

totalMW(c) ==
    IF c.loadGiven = "itLoadMW" THEN RMul(adjustedPUE(c), c.loadMW) ELSE c.loadMW

itMW(c) ==
    IF c.loadGiven = "itLoadMW" THEN c.loadMW ELSE RDiv(c.loadMW, adjustedPUE(c))

\* step 2
nonItMW(c) == RSub(totalMW(c), itMW(c))

coolingMult(c) == IF c.coolingType = "Liquid" THEN R(12, 10) ELSE One

climateMult(c) ==
    CASE c.climate = "Cold" -> R(9, 10)
      [] c.climate = "Hot/Humid" -> R(11, 10)
      [] OTHER -> One

mechMW(c) == RMul(RMul(RMul(c.mechanicalFraction, nonItMW(c)), coolingMult(c)), climateMult(c))

\* houseMW taken as what is left of the non-IT load after the adjusted mechanical load
houseMWRemainder(c) == RSub(nonItMW(c), mechMW(c))

houseMW(c) == RSub(nonItMW(c), RDiv(mechMW(c), RMul(coolingMult(c), climateMult(c))))

\* step 3: ceiling(load / per-unit capacity)
Units(load, capacity) == Ceil(RDiv(load, capacity))

lvItPcc(c) == Units(itMW(c), c.lvBusMW)
lvMechMcc(c) == Units(mechMW(c), c.lvBusMW)
lvHousePcc(c) == Units(houseMW(c), c.lvBusMW)
lvTotal(c) == lvItPcc(c) + lvMechMcc(c) + lvHousePcc(c)
upsLineups(c) == Units(itMW(c), c.upsLineupMW)
pdus(c) == Units(itMW(c), c.pduMVA)
transformersN(c) == Units(totalMW(c), RMul(c.transformerMVA, c.powerFactor))
mvBuses(c) == c.mvBusesBase + (c.utilityIncomers - 1)

\* step 4
voltageAdditions(c) ==
    IF c.voltageLevels > 2 THEN (c.voltageLevels - 2) * (transformersN(c) + 1) ELSE 0

generatorAdditions(c) == c.backupGenerators * 2

\* step 5, with the transformer count given
CoreSum(c, transformers) ==
    mvBuses(c) + transformers + lvTotal(c) + upsLineups(c) + pdus(c)
        + voltageAdditions(c) + generatorAdditions(c)

\* the 2N policy with nothing duplicated
TwoNSumNotDuplicated(c) == R(CoreSum(c, transformersN(c)), 1)

\* step 6, 2N: everything doubled but the PDUs, which count 1.5 times
TwoNSum(c) ==
    RAdd(R(2 * (mvBuses(c) + transformersN(c) + lvTotal(c) + upsLineups(c)
                + voltageAdditions(c) + generatorAdditions(c)), 1),
         RMul(R(15, 10), R(pdus(c), 1)))

\* step 6: total before rounding
RedundancyTotal(c) ==
    CASE c.redundancyTier = "N" ->
            RMul(R(CoreSum(c, transformersN(c)), 1), c.expansionFactor)
      [] c.redundancyTier = "N+1" ->
            RMul(RMul(R(CoreSum(c, transformersN(c) + 1), 1), c.expansionFactor),
                 R(115, 100))
      [] c.redundancyTier = "2N" -> RMul(TwoNSum(c), c.expansionFactor)

redundancyFactor(c) ==
    CASE c.redundancyTier = "N" -> One
      [] c.redundancyTier = "N+1" -> R(115, 100)
      [] c.redundancyTier = "2N" -> R(2, 1)

\* step 7
totalBuses(c) == Ceil(RedundancyTotal(c))

\* step 8
Warnings(c) ==
    (IF totalBuses(c) > 500 /\ ~RLeq(R(20, 1), totalMW(c))
        THEN {"high bus count for facility size"} ELSE {})
    \cup (IF pdus(c) > 500 THEN {"consider larger PDU blocks"} ELSE {})
    \cup (IF ~RLeq(R(3, 10), RDiv(itMW(c), totalMW(c)))
             THEN {"low IT fraction, check PUE"} ELSE {})

\* estimate(config)
Estimate(c) ==
    [totalMW |-> totalMW(c),
     itMW |-> itMW(c),
     mechMW |-> mechMW(c),
     houseMW |-> houseMW(c),
     mvBuses |-> mvBuses(c),
     transformers |-> IF c.redundancyTier = "N+1" THEN transformersN(c) + 1
                      ELSE transformersN(c),
     lvItPcc |-> lvItPcc(c),
     lvMechMcc |-> lvMechMcc(c),
     lvHousePcc |-> lvHousePcc(c),
     upsLineups |-> upsLineups(c),
     pdus |-> pdus(c),
     voltageAdditions |-> voltageAdditions(c),
     generatorAdditions |-> generatorAdditions(c),
     totalBuses |-> totalBuses(c),
     redundancyFactor |-> redundancyFactor(c),
     warnings |-> Warnings(c)]

\* the configurations explored: valid ones, every capacity positive
BusConfigs ==
    [loadGiven : {"itLoadMW", "totalFacilityLoadMW"},
     loadMW : {R(1, 2), R(5, 1), R(12, 1)},
     pue : {R(12, 10), R(156, 100)},
     dcType : DcTypes,
     mechanicalFraction : {R(5, 10), R(9, 10)},
     redundancyTier : RedundancyTiers,
     upsLineupMW : {R(15, 10)},
     transformerMVA : {R(3, 1)},
     lvBusMW : {R(3, 1)},
     pduMVA : {R(3, 10)},
     mvBusesBase : {2},
     voltageLevels : {2, 3},
     backupGenerators : 0..MaxGenerators,
     coolingType : CoolingTypes,
     climate : Climates,
     expansionFactor : {One, R(12, 10)},
     powerFactor : {R(95, 100)},
     utilityIncomers : 1..MaxIncomers]

\* the cost page is not in use
CostIdle ==
    /\ it_capacity = R(50, 10)
    /\ mechanical_load = R(20, 10)
    /\ house_load = R(5, 10)
    /\ tier_level = "Tier III"
    /\ delivery_type = "Standard"
    /\ report_format = "Detailed Report with Appendices"
    /\ studies_selected = [k \in StudyKeys |-> TRUE]
    /\ client_meetings = 2
    /\ custom_margin = 15
    /\ bus_calibration = One
    /\ calibration_factor = [k \in StudyKeys |-> One]
    /\ sliders = [senior |-> 20, mid |-> 30, junior |-> 50]
    /\ senior_rate = 1200
    /\ mid_rate = 650
    /\ junior_rate = 350
    /\ meeting_cost = 8000
    /\ urgency_multiplier = R(13, 10)
    /\ pc = "idle"
    /\ senior_allocation = R(20, 100)
    /\ mid_allocation = R(30, 100)
    /\ junior_allocation = R(50, 100)
    /\ total_allocation = Zero
    /\ total_load = Zero
    /\ estimated_buses = 0
    /\ idx = 1
    /\ total_study_hours = Zero
    /\ total_study_cost = Zero
    /\ studies = Empty
    /\ costs = Empty
    /\ study_percentages = Empty
    /\ reruns = 0
    /\ prev = [valid |-> FALSE, delivery |-> "Standard", studies |-> Empty, costs |-> Empty]

InitBus ==
    /\ CostIdle
    /\ bus_pc = "config"
    /\ bus_config \in BusConfigs
    /\ bus_result = Empty
    /\ totals_by_tier = Empty

cost == <<widgets, pc, allocations, calc, reruns, prev>>

\* estimate(config) is called and its result kept
BusEstimate ==
    /\ bus_pc = "config"
    /\ bus_result' = Estimate(bus_config)
    /\ totals_by_tier' =
          [t \in DOMAIN totals_by_tier \cup {bus_config.redundancyTier} |->
              IF t = bus_config.redundancyTier THEN bus_result'.totalBuses
              ELSE totals_by_tier[t]]
    /\ bus_pc' = "estimated"
    /\ UNCHANGED <<bus_config, cost>>

\* the same configuration is submitted again with another redundancy tier
ChangeRedundancy ==
    /\ bus_pc = "estimated"
    /\ \E t \in RedundancyTiers \ DOMAIN totals_by_tier :
          bus_config' = [bus_config EXCEPT !.redundancyTier = t]
    /\ bus_pc' = "config"
    /\ UNCHANGED <<bus_result, totals_by_tier, cost>>

NextBus == BusEstimate \/ ChangeRedundancy

SpecBus == InitBus /\ [][NextBus]_vars

(***************************************************************************)
(* Properties of the bus-count estimator                                   *)
(***************************************************************************)

\* C8: with the configuration fixed except for the redundancy tier, totalBuses
\* under 2N is at least totalBuses under N+1, which is at least totalBuses under N.
C8_RedundancyMonotone ==
    /\ {"N", "N+1"} \subseteq DOMAIN totals_by_tier
          => totals_by_tier["N+1"] >= totals_by_tier["N"]
    /\ {"N+1", "2N"} \subseteq DOMAIN totals_by_tier
          => totals_by_tier["2N"] >= totals_by_tier["N+1"]

C8_Witness ==
    /\ bus_pc = "estimated"
    /\ DOMAIN totals_by_tier = RedundancyTiers
    /\ totals_by_tier["2N"] > totals_by_tier["N+1"]
    /\ totals_by_tier["N+1"] > totals_by_tier["N"]

\* itMW + mechMW + houseMW - totalMW of the last result
LoadExcess ==
    RSub(RAdd(RAdd(bus_result.itMW, bus_result.mechMW), bus_result.houseMW),
         bus_result.totalMW)

\* a rounding tolerance, 0.001 MW
WithinTolerance(x) == RLeq(x, R(1, 1000)) /\ RLeq(R(-1, 1000), x)

\* C9 as stated: for every valid configuration, in both load-specification
\* directions and for every cooling type and climate, itMW + mechMW + houseMW =
\* totalMW within rounding tolerance.
C9_LoadConservation == bus_pc = "estimated" => WithinTolerance(LoadExcess)

\* C9 amended: in both load-specification directions, itMW + mechMW + houseMW
\* exceeds totalMW by mechanicalFraction * (totalMW - itMW) * (coolingMult *
\* climateMult - 1): the loads add up to totalMW for air cooling in a temperate
\* climate, the one combination whose multipliers have product 1, and for no other.
C9_LoadExcess ==
    bus_pc = "estimated" =>
        LET mult == RMul(IF bus_config.coolingType = "Liquid" THEN R(12, 10) ELSE One,
                         CASE bus_config.climate = "Cold" -> R(9, 10)
                           [] bus_config.climate = "Hot/Humid" -> R(11, 10)
                           [] bus_config.climate = "Temperate" -> One)
        IN  /\ LoadExcess =
                  RMul(RMul(bus_config.mechanicalFraction,
                            RSub(bus_result.totalMW, bus_result.itMW)),
                       RSub(mult, One))
            /\ (bus_config.coolingType = "Air" /\ bus_config.climate = "Temperate")
                  <=> LoadExcess = Zero

C9_Witness ==
    /\ bus_pc = "estimated"
    /\ bus_config.loadGiven = "totalFacilityLoadMW"
    /\ bus_config.coolingType = "Air"
    /\ bus_config.climate = "Temperate"
    /\ bus_result.houseMW.n > 0
    /\ RAdd(RAdd(bus_result.itMW, bus_result.mechMW), bus_result.houseMW)
          = bus_result.totalMW

(***************************************************************************)
(* The grade split of a study entry                                        *)
(***************************************************************************)

\* C11: in every study entry senior_hours + mid_hours + junior_hours is the
\* study's hours, the allocations being normalised, and the study's total_cost
\* is senior_cost + mid_cost + junior_cost.
C11_GradeSplit ==
    \A k \in DOMAIN studies :
        LET e == studies[k]
        IN  /\ e.senior_hours.n * e.mid_hours.d * e.junior_hours.d * e.hours.d
                  + e.mid_hours.n * e.senior_hours.d * e.junior_hours.d * e.hours.d
                  + e.junior_hours.n * e.senior_hours.d * e.mid_hours.d * e.hours.d
               = e.hours.n * e.senior_hours.d * e.mid_hours.d * e.junior_hours.d
            /\ e.total_cost = RAdd(RAdd(e.senior_cost, e.mid_cost), e.junior_cost)

C11_Witness ==
    /\ pc = "done"
    /\ sliders = [senior |-> 10, mid |-> 20, junior |-> 50]
    /\ DOMAIN studies = StudyKeys
    /\ studies["arc_flash"].hours.n > 0
    /\ studies["arc_flash"].senior_hours = RMul(studies["arc_flash"].hours, R(1, 8))
    /\ studies["arc_flash"].mid_hours = RMul(studies["arc_flash"].hours, R(2, 8))
    /\ studies["arc_flash"].junior_hours = RMul(studies["arc_flash"].hours, R(5, 8))

(***************************************************************************)
(* The divisor of the cost distribution                                    *)
(***************************************************************************)

\* the lower ends of the input widgets' ranges (105-107, 132-143, 161-163)
InWidgetRanges ==
    /\ RLeq(R(1, 10), it_capacity)
    /\ RLeq(R(1, 10), mechanical_load)
    /\ RLeq(R(1, 10), house_load)
    /\ RLeq(R(5, 10), bus_calibration)
    /\ \A k \in StudyKeys : RLeq(R(5, 10), calibration_factor[k])
    /\ senior_rate >= 200
    /\ mid_rate >= 200
    /\ junior_rate >= 200

\* C12: for inputs within the widgets' ranges estimated_buses is at least 1, so
\* every study entry's total_cost is strictly positive and the sum of study costs
\* that the percentage computation divides by is never zero.
C12_DivisorNotZero ==
    InWidgetRanges =>
        /\ pc \in {"loop", "done", "displayed", "ZeroDivisionError"} => estimated_buses >= 1
        /\ \A k \in DOMAIN studies : studies[k].total_cost.n > 0
        /\ pc # "ZeroDivisionError"
        /\ (pc = "displayed" /\ \E k \in StudyKeys : studies_selected[k]) =>
              /\ costs.total_study_cost.n > 0
              /\ DOMAIN study_percentages = DOMAIN studies
              /\ \A k \in DOMAIN studies :
                    RMul(study_percentages[k], costs.total_study_cost)
                        = RMul(studies[k].total_cost, R(100, 1))

C12_Witness ==
    /\ pc = "displayed"
    /\ it_capacity = R(1, 10)
    /\ mechanical_load = R(1, 10)
    /\ house_load = R(1, 10)
    /\ bus_calibration = R(5, 10)
    /\ tier_level = "Tier I"
    /\ junior_rate = 200
    /\ estimated_buses = 1
    /\ DOMAIN studies = {"load_flow"}
    /\ calibration_factor["load_flow"] = R(5, 10)
    /\ study_percentages = [k \in {"load_flow"} |-> R(100, 1)]

====
